---- MODULE Spec2Model ----
(***************************************************************************)
(* Weather forecast application (lecture-6/kadai.py): the JSON-to-daily-   *)
(* record reducer pick_daily_weather_and_temp, the SQLite tables areas and *)
(* forecasts with their operations, and the orchestrator                   *)
(* fetch_save_and_show with the UI handlers that call it.                  *)
(*                                                                         *)
(* Strings are tuples of one-character strings, so that slicing, parsing   *)
(* and byte-wise comparison (SQLite's BINARY collation, Python's sorted)   *)
(* are computed and not assumed.                                           *)
(***************************************************************************)
EXTENDS Integers, Sequences, FiniteSets, TLC

VARIABLES
    forecasts,   \* rows of table forecasts
    areas,       \* rows of table areas
    now,         \* the wall clock when the last handler ran, in whole
                 \* seconds after 2024-05-02T00:00:00Z
    current,     \* current_office_code / name / center_code / center_name
    status,      \* status.value, as the tag of the last set_status call
    last_updated,\* last_updated.value: the report_dt rendered, or NoStr
    cards,       \* cards.controls: the day records shown
    history_dd,  \* history_dd.value
    hist_opts,   \* history_dd.options
    loading,     \* loading.visible
    call,        \* what the last handler run did (observation only)
    ncalls,      \* number of handler runs so far
    nfaults,     \* number of sqlite3 calls that raised so far
    raw,         \* the last payload handed to the reducer
    out,         \* what the reducer returned for it
    saves        \* the save_forecasts calls in progress, each on its own
                 \* connection: their arguments and their place in the loop

vars == <<forecasts, areas, now, current, status, last_updated, cards,
          history_dd, hist_opts, loading, call, ncalls, nfaults, raw, out, saves>>

-----------------------------------------------------------------------------
(* Characters and strings                                                  *)

Min2(a, b) == IF a <= b THEN a ELSE b

\* The code point of each character the model's strings use.
Ord(c) ==
    CASE c = "+" -> 43 [] c = "-" -> 45 [] c = "." -> 46
      [] c = "0" -> 48 [] c = "1" -> 49 [] c = "2" -> 50 [] c = "3" -> 51
      [] c = "4" -> 52 [] c = "5" -> 53 [] c = "6" -> 54 [] c = "7" -> 55
      [] c = "8" -> 56 [] c = "9" -> 57 [] c = ":" -> 58 [] c = "T" -> 84
      [] OTHER -> 120

IsDigit(c) == Ord(c) >= 48 /\ Ord(c) <= 57
DigitVal(c) == Ord(c) - 48
DigitChar(n) == <<"0", "1", "2", "3", "4", "5", "6", "7", "8", "9">>[n + 1]

\* Byte-wise string order: memcmp, then the shorter string first.
RECURSIVE StrLessFrom(_, _, _)
StrLessFrom(a, b, i) ==
    IF i > Len(b) THEN FALSE
    ELSE IF i > Len(a) THEN TRUE
    ELSE IF a[i] = b[i] THEN StrLessFrom(a, b, i + 1)
    ELSE Ord(a[i]) < Ord(b[i])

StrLess(a, b) == StrLessFrom(a, b, 1)

StrLeq(a, b) == a = b \/ StrLess(a, b)

\* s[:n]
Prefix(s, n) == SubSeq(s, 1, Min2(n, Len(s)))

AllDigits(s, lo, hi) == \A i \in lo..hi : IsDigit(s[i])

RECURSIVE DigitsVal(_, _, _)
DigitsVal(s, lo, hi) ==
    IF hi < lo THEN 0 ELSE DigitsVal(s, lo, hi - 1) * 10 + DigitVal(s[hi])

Pad2(n) == <<DigitChar(n \div 10), DigitChar(n % 10)>>

Pad4(n) == <<DigitChar(n \div 1000), DigitChar((n \div 100) % 10),
             DigitChar((n \div 10) % 10), DigitChar(n % 10)>>
Pad6(n) == <<DigitChar(n \div 100000), DigitChar((n \div 10000) % 10)>>
           \o Pad4(n % 10000)

\* None and the empty string: the code tests both by truthiness only.
NoStr == <<>>

-----------------------------------------------------------------------------
(* datetime: fromisoformat, isoformat, strftime, subtraction               *)

DaysInMonth(y, m) ==
    IF m = 2 THEN (IF (y % 4 = 0 /\ y % 100 # 0) \/ y % 400 = 0 THEN 28 + 1 ELSE 28)
    ELSE IF m \in {4, 6, 9, 11} THEN 30 ELSE 31

\* Days of the proleptic Gregorian date y-m-d after 1970-01-01.
DaysFromCivil(y, m, d) ==
    LET yy  == IF m <= 2 THEN y - 1 ELSE y
        era == yy \div 400
        yoe == yy - era * 400
        mp  == IF m > 2 THEN m - 3 ELSE m + 9
        doy == (153 * mp + 2) \div 5 + d - 1
        doe == yoe * 365 + yoe \div 4 - yoe \div 100 + doy
    IN  era * 146097 + doe - 719468

\* The date <<y, m, d>> of day doy (from March 1) of year y0, mp its month
\* counted from March.
CivilOf(y0, mp, doy) ==
    <<IF mp >= 10 THEN y0 + 1 ELSE y0,
      IF mp < 10 THEN mp + 3 ELSE mp - 9,
      doy - (153 * mp + 2) \div 5 + 1>>

\* The date of day doe of the 400-year era, yoe its year of the era.
CivilOfYear(era, doe, yoe) ==
    LET doy == doe - (365 * yoe + yoe \div 4 - yoe \div 100)
    IN  CivilOf(yoe + era * 400, (5 * doy + 2) \div 153, doy)

\* The date <<y, m, d>> that is z days after 1970-01-01.
CivilFromDays(z) ==
    LET zz  == z + 719468
        era == zz \div 146097
        doe == zz - era * 146097
    IN  CivilOfYear(era, doe,
            (doe - doe \div 1460 + doe \div 36524 - doe \div 146096) \div 365)

\* The clock counts seconds from this day's midnight (UTC).
EpochDays == DaysFromCivil(2024, 5, 2)
SecPerDay == 24 * 3600

\* The machine's zone, as seconds east of UTC (JST).
LocalOffset == 9 * 3600

NoDT == [ok |-> FALSE, y |-> 0, mo |-> 0, d |-> 0, wall |-> 0, us |-> 0,
         aware |-> FALSE, off |-> 0]

\* "YYYY-MM-DD" at s[1..10]
DateShape(s) ==
    /\ Len(s) >= 10
    /\ AllDigits(s, 1, 4) /\ s[5] = "-" /\ AllDigits(s, 6, 7) /\ s[8] = "-"
    /\ AllDigits(s, 9, 10)
    /\ DigitsVal(s, 1, 4) >= 1
    /\ DigitsVal(s, 6, 7) \in 1..12
    /\ DigitsVal(s, 9, 10) \in 1..DaysInMonth(DigitsVal(s, 1, 4), DigitsVal(s, 6, 7))

\* "HH:MM:SS" at s[12..19], after any one separator character at s[11]
TimeShape(s) ==
    /\ Len(s) >= 19
    /\ AllDigits(s, 12, 13) /\ s[14] = ":" /\ AllDigits(s, 15, 16) /\ s[17] = ":"
    /\ AllDigits(s, 18, 19)
    /\ DigitsVal(s, 12, 13) <= 23 /\ DigitsVal(s, 15, 16) <= 59
    /\ DigitsVal(s, 18, 19) <= 59

\* ".ffffff" at s[p..p+6]
FracShape(s, p) == Len(s) >= p + 6 /\ s[p] = "." /\ AllDigits(s, p + 1, p + 6)

\* "+HH:MM" or "-HH:MM" at s[p..p+5], ending the string
OffShape(s, p) ==
    /\ Len(s) = p + 5
    /\ s[p] \in {"+", "-"}
    /\ AllDigits(s, p + 1, p + 2) /\ s[p + 3] = ":" /\ AllDigits(s, p + 4, p + 5)
    /\ DigitsVal(s, p + 1, p + 2) <= 23 /\ DigitsVal(s, p + 4, p + 5) <= 59

OffVal(s, p) ==
    (IF s[p] = "-" THEN -1 ELSE 1)
        * (DigitsVal(s, p + 1, p + 2) * 3600 + DigitsVal(s, p + 4, p + 5) * 60)

\* The naive datetime y-mo-d 00:00:00.  wall is the wall-clock reading in
\* seconds after the epoch day's midnight.
DateOf(y, mo, d) ==
    [ok |-> TRUE, y |-> y, mo |-> mo, d |-> d,
     wall |-> (DaysFromCivil(y, mo, d) - EpochDays) * SecPerDay,
     us |-> 0, aware |-> FALSE, off |-> 0]

\* fromisoformat past the time of day: the fraction ends at s[p - 1]; what
\* follows is nothing or a UTC offset
FromIsoZone(s, dt, p) ==
    IF Len(s) = p - 1 THEN dt
    ELSE IF OffShape(s, p) THEN [dt EXCEPT !.aware = TRUE, !.off = OffVal(s, p)]
    ELSE NoDT

\* fromisoformat past the date: base is the date at s[1..10]
FromIsoTime(s, base) ==
    IF Len(s) = 10 THEN base
    ELSE IF ~TimeShape(s) THEN NoDT
    ELSE IF FracShape(s, 20)
    THEN FromIsoZone(s, [base EXCEPT
                            !.wall = @ + DigitsVal(s, 12, 13) * 3600
                                       + DigitsVal(s, 15, 16) * 60 + DigitsVal(s, 18, 19),
                            !.us = DigitsVal(s, 21, 26)], 27)
    ELSE FromIsoZone(s, [base EXCEPT
                            !.wall = @ + DigitsVal(s, 12, 13) * 3600
                                       + DigitsVal(s, 15, 16) * 60 + DigitsVal(s, 18, 19)],
                     20)

\* datetime.fromisoformat, for the forms date, date+time, with an optional
\* six-digit fraction and an optional UTC offset; NoDT where it raises.
FromIso(s) ==
    IF ~DateShape(s) THEN NoDT
    ELSE FromIsoTime(s, DateOf(DigitsVal(s, 1, 4), DigitsVal(s, 6, 7), DigitsVal(s, 9, 10)))

\* datetime.isoformat of the naive reading <<wall seconds, microseconds>>
IsoNaive(wall, us) ==
    LET ymd == CivilFromDays(EpochDays + wall \div SecPerDay)
        t   == wall % SecPerDay
    IN  Pad4(ymd[1]) \o <<"-">> \o Pad2(ymd[2]) \o <<"-">> \o Pad2(ymd[3])
        \o <<"T">> \o Pad2(t \div 3600) \o <<":">> \o Pad2((t \div 60) % 60)
        \o <<":">> \o Pad2(t % 60)
        \o (IF us = 0 THEN <<>> ELSE <<".">> \o Pad6(us))

\* datetime.now(timezone.utc).isoformat() read at clock <<t, us>>
IsoUtcNow(t, us) == IsoNaive(t, us) \o <<"+", "0", "0", ":", "0", "0">>

\* datetime.now().isoformat() read at clock <<t, us>>
IsoLocalNow(t, us) == IsoNaive(t + LocalOffset, us)

\* dt.strftime("%Y-%m-%d")
StrfDate(dt) == Pad4(dt.y) \o <<"-">> \o Pad2(dt.mo) \o <<"-">> \o Pad2(dt.d)

\* The instant of an aware datetime, in seconds after the epoch (UTC).
Instant(dt) == dt.wall - dt.off

-----------------------------------------------------------------------------
(* JSON values                                                             *)
(*   scalar : [k : "str" | "num" | "null", s : string, n : Int]            *)
(*   array  : [k : "list" | "missing" | "num", v : Seq(scalar)]            *)
(*            ("missing": the key is absent; "num": a number stands where  *)
(*            the array is expected)                                       *)
(*   series : [k : "obj" | "num", timeDefines : array,                     *)
(*             areas : "ok" | "missing", weathers, temps, tempsMin,        *)
(*             tempsMax : array]      (the keys of areas[0])               *)
(*   payload: [top : "list" | "empty" | "other", root : "obj" | "num",     *)
(*             reportDatetime : string, tsk : "list" | "missing" | "num",  *)
(*             ts : Seq(series)]                                           *)

JStr(s) == [k |-> "str", s |-> s, n |-> 0]
JNum(n) == [k |-> "num", s |-> <<>>, n |-> n]
JNull   == [k |-> "null", s |-> <<>>, n |-> 0]

JList(v)  == [k |-> "list", v |-> v]
JMissing  == [k |-> "missing", v |-> <<>>]
JNotArray == [k |-> "num", v |-> <<>>]

\* bool(x) of a scalar
Truthy(x) ==
    CASE x.k = "str" -> x.s # <<>>
      [] x.k = "num" -> x.n # 0
      [] OTHER -> FALSE

\* Where the digits of a numeral start: after an optional sign.
DigitsFrom(s) == IF Len(s) >= 1 /\ s[1] \in {"+", "-"} THEN 2 ELSE 1

\* int(x) succeeds: an integer, or a string of an optional sign and digits
IntOK(x) ==
    CASE x.k = "num" -> TRUE
      [] x.k = "str" -> Len(x.s) >= DigitsFrom(x.s)
                           /\ AllDigits(x.s, DigitsFrom(x.s), Len(x.s))
      [] OTHER -> FALSE

\* int(x), where IntOK(x)
IntOf(x) ==
    IF x.k = "num" THEN x.n
    ELSE (IF x.s[1] = "-" THEN -1 ELSE 1) * DigitsVal(x.s, DigitsFrom(x.s), Len(x.s))

-----------------------------------------------------------------------------
(* Helpers                                                                 *)

\* fmt_date raises (TypeError from iso[:10]) on anything but a string
fmt_date_raises(x) == x.k # "str"

\* fmt_date(iso), for a string
fmt_date(x) ==
    LET dt == FromIso(x.s)
    IN  IF dt.ok THEN StrfDate(dt) ELSE Prefix(x.s, 10)

\* parse_iso_dt(s): FromIso, with None as the record whose ok is FALSE
parse_iso_dt(s) == FromIso(s)

\* extract_report_datetime(forecast_json), the clock read at <<t, us>>
extract_report_datetime(p, t, us) ==
    IF p.top = "list" /\ p.root = "obj" /\ p.reportDatetime # NoStr
    THEN p.reportDatetime
    ELSE IsoUtcNow(t, us)

-----------------------------------------------------------------------------
(* pick_daily_weather_and_temp                                             *)

\* A temperature cell: an integer, None (NULL in the table), or "-".
CInt(n) == [k |-> "int", n |-> n]
CNone   == [k |-> "none", n |-> 0]
CDash   == [k |-> "dash", n |-> 0]

\* out[:6], and the default limit_days of load_forecasts
DayLimit == 6

EmptyDict == [x \in {} |-> 0]

\* ts[i] is an object (i counts from 0, as in the code)
SeriesOK(p, i) == p.tsk = "list" /\ i + 1 <= Len(p.ts) /\ p.ts[i + 1].k = "obj"

\* ts[i]["timeDefines"], or the initial [] when the lookup raises
TimeDefinesOf(p, i) ==
    IF SeriesOK(p, i) /\ p.ts[i + 1].timeDefines.k # "missing"
    THEN p.ts[i + 1].timeDefines ELSE JList(<<>>)

\* ts[i]["areas"][0] can be read, after timeDefines was
AreaOK(p, i) ==
    /\ SeriesOK(p, i)
    /\ p.ts[i + 1].timeDefines.k # "missing"
    /\ p.ts[i + 1].areas = "ok"

w_times(p) == TimeDefinesOf(p, 0)
weathers(p) ==
    IF AreaOK(p, 0) /\ p.ts[1].weathers.k # "missing"
    THEN p.ts[1].weathers ELSE JList(<<>>)

t_daily_times(p) == TimeDefinesOf(p, 2)
mins(p) ==
    IF AreaOK(p, 2) /\ p.ts[3].tempsMin.k # "missing"
    THEN p.ts[3].tempsMin ELSE JList(<<>>)
maxs(p) ==
    IF AreaOK(p, 2) /\ p.ts[3].tempsMin.k # "missing"
                    /\ p.ts[3].tempsMax.k # "missing"
    THEN p.ts[3].tempsMax ELSE JList(<<>>)

t_hourly_times(p) == TimeDefinesOf(p, 1)
temps_hourly(p) ==
    IF AreaOK(p, 1) /\ p.ts[2].temps.k # "missing"
    THEN p.ts[2].temps ELSE JList(<<>>)

\* len(a) raises on a number
LenRaises(a) == a.k = "num"

DefaultItem(d) == [date |-> d, weather |-> JStr(<<"-">>), min |-> CNone, max |-> CNone]

\* result.setdefault(d, {...})
SetDefault(r, d) == IF d \in DOMAIN r THEN r ELSE r @@ (d :> DefaultItem(d))

\* The computation so far: the dict result, and whether an exception left
\* the function.
Acc(r, e) == [res |-> r, err |-> e]

\* result.setdefault(d, {...}); result[d]["weather"] = w
WeatherPut(r, d, w) == [SetDefault(r, d) EXCEPT ![d].weather = w]

\* for i in range(min(len(w_times), len(weathers))): ...
RECURSIVE WeatherLoop(_, _, _, _, _)
WeatherLoop(wt, ws, i, n, acc) ==
    IF i > n \/ acc.err THEN acc
    ELSE IF fmt_date_raises(wt[i]) THEN Acc(acc.res, TRUE)
    ELSE WeatherLoop(wt, ws, i + 1, n,
                     Acc(WeatherPut(acc.res, fmt_date(wt[i]), ws[i]), FALSE))

FillWeather(p, acc) ==
    IF acc.err THEN acc
    ELSE IF LenRaises(w_times(p)) \/ LenRaises(weathers(p)) THEN Acc(acc.res, TRUE)
    ELSE WeatherLoop(w_times(p).v, weathers(p).v, 1,
                     Min2(Len(w_times(p).v), Len(weathers(p).v)), acc)

\* if i < len(xs) and xs[i]: try: result[d][f] = int(xs[i]) except: pass
DailyCell(xs, i, old) ==
    IF i <= Len(xs.v) /\ Truthy(xs.v[i]) /\ IntOK(xs.v[i])
    THEN CInt(IntOf(xs.v[i])) ELSE old

\* result.setdefault(d, {...}), then the two cells of record i
DailyPut(r, d, mn, mx, i) ==
    [SetDefault(r, d) EXCEPT ![d].min = DailyCell(mn, i, @),
                             ![d].max = DailyCell(mx, i, @)]

\* for i in range(len(t_daily_times)): ...
RECURSIVE DailyLoop(_, _, _, _, _, _)
DailyLoop(tt, mn, mx, i, n, acc) ==
    IF i > n \/ acc.err THEN acc
    ELSE IF fmt_date_raises(tt[i]) \/ LenRaises(mn) \/ LenRaises(mx)
    THEN Acc(acc.res, TRUE)
    ELSE DailyLoop(tt, mn, mx, i + 1, n,
                   Acc(DailyPut(acc.res, fmt_date(tt[i]), mn, mx, i), FALSE))

FillDaily(p, acc) ==
    IF acc.err THEN acc
    ELSE IF LenRaises(t_daily_times(p)) THEN Acc(acc.res, TRUE)
    ELSE DailyLoop(t_daily_times(p).v, mins(p), maxs(p), 1,
                   Len(t_daily_times(p).v), acc)

\* daily_bucket.setdefault(d, []).append(temp)
BucketPut(b, d, temp) ==
    [(IF d \in DOMAIN b THEN b ELSE b @@ (d :> <<>>)) EXCEPT ![d] = Append(@, temp)]

\* for i in range(min(len(t_hourly_times), len(temps_hourly))): ...,
\* skipping what int() rejects
RECURSIVE BucketLoop(_, _, _, _, _)
BucketLoop(ht, tp, i, n, acc) ==
    IF i > n \/ acc.err THEN acc
    ELSE IF fmt_date_raises(ht[i]) THEN Acc(acc.res, TRUE)
    ELSE IF ~IntOK(tp[i]) THEN BucketLoop(ht, tp, i + 1, n, acc)
    ELSE BucketLoop(ht, tp, i + 1, n,
                    Acc(BucketPut(acc.res, fmt_date(ht[i]), IntOf(tp[i])), FALSE))

\* daily_bucket, or an exception
daily_bucket(p) ==
    IF LenRaises(t_hourly_times(p)) \/ LenRaises(temps_hourly(p))
    THEN Acc(EmptyDict, TRUE)
    ELSE BucketLoop(t_hourly_times(p).v, temps_hourly(p).v, 1,
                    Min2(Len(t_hourly_times(p).v), Len(temps_hourly(p).v)),
                    Acc(EmptyDict, FALSE))

SeqMin(t) == CHOOSE m \in {t[i] : i \in DOMAIN t} : \A j \in DOMAIN t : m <= t[j]
SeqMax(t) == CHOOSE m \in {t[i] : i \in DOMAIN t} : \A j \in DOMAIN t : m >= t[j]

\* HourlyMin without the fallback
HourlyMinNever(old, temps) == old

\* if result[d][f] is None and temps: result[d][f] = min(temps) / max(temps)
HourlyMin(old, temps) == IF old.k = "none" /\ temps # <<>> THEN CInt(SeqMin(temps)) ELSE old
HourlyMax(old, temps) == IF old.k = "none" /\ temps # <<>> THEN CInt(SeqMax(temps)) ELSE old

\* for d, temps in daily_bucket.items(): result.setdefault(d, {...}), then
\* min and max where they are None; r is result, b is daily_bucket
HourlyOver(r, b) ==
    [d \in DOMAIN r \cup DOMAIN b |->
        IF d \in DOMAIN b
        THEN [(IF d \in DOMAIN r THEN r[d] ELSE DefaultItem(d))
                 EXCEPT !.min = HourlyMin(@, b[d]), !.max = HourlyMax(@, b[d])]
        ELSE r[d]]

FillHourly(p, acc) ==
    IF acc.err THEN acc
    ELSE IF daily_bucket(p).err THEN Acc(acc.res, TRUE)
    ELSE Acc(HourlyOver(acc.res, daily_bucket(p).res), FALSE)

\* sorted(keys)
RECURSIVE SortedKeys(_)
SortedKeys(S) ==
    IF S = {} THEN <<>>
    ELSE LET m == CHOOSE x \in S : \A y \in S : StrLeq(x, y)
         IN  <<m>> \o SortedKeys(S \ {m})

\* "-" if item[f] is None else item[f]
DashIfNone(c) == IF c.k = "none" THEN CDash ELSE c

\* The out list for the keys ks in order.
OutList(r, ks) ==
    [i \in 1..Len(ks) |->
        [date |-> r[ks[i]].date, weather |-> r[ks[i]].weather,
         min |-> DashIfNone(r[ks[i]].min), max |-> DashIfNone(r[ks[i]].max)]]

\* the out list, before it is cut
Finalize(r) == OutList(r, SortedKeys(DOMAIN r))

\* Truncate without the cut
TruncateNone(o) == o

\* out[:6]
Truncate(o) == SubSeq(o, 1, Min2(DayLimit, Len(o)))

\* What the function does after the loops: raises, or returns out[:6].
Returned(a) ==
    IF a.err THEN [err |-> TRUE, recs |-> <<>>]
    ELSE [err |-> FALSE, recs |-> Truncate(Finalize(a.res))]

\* pick_daily_weather_and_temp(forecast_json): [err, recs]; err: an exception
\* leaves the function
pick_daily_weather_and_temp(p) ==
    IF p.top # "list" THEN [err |-> FALSE, recs |-> <<>>]
    ELSE IF p.root # "obj" THEN [err |-> TRUE, recs |-> <<>>]
    ELSE Returned(FillHourly(p, FillDaily(p, FillWeather(p, Acc(EmptyDict, FALSE)))))

-----------------------------------------------------------------------------
(* DB ops.  A row of forecasts is [id, office_code, forecast_date,         *)
(* report_datetime, weather, temp_min, temp_max]; a row of areas is        *)
(* [office_code, office_name, center_code, center_name, updated_at].       *)

\* limit=30 of rebuild_history_dropdown
HistoryLimit == 30

\* minutes=10 of the freshness test
FreshMinutes == 10

\* upsert_area as INSERT OR IGNORE: a row of the office is left as it is
upsert_areaIgnoring(tbl, code, name, ccode, cname, t, us) ==
    IF \E r \in tbl : r.office_code = code THEN tbl
    ELSE tbl \cup {[office_code |-> code, office_name |-> name, center_code |-> ccode,
                    center_name |-> cname, updated_at |-> IsoLocalNow(t, us)]}

\* INSERT ... ON CONFLICT(office_code) DO UPDATE SET ..., read at clock <<t, us>>
upsert_area(tbl, code, name, ccode, cname, t, us) ==
    {r \in tbl : r.office_code # code}
        \cup {[office_code |-> code, office_name |-> name, center_code |-> ccode,
               center_name |-> cname, updated_at |-> IsoLocalNow(t, us)]}

\* The rows of one snapshot.
SnapshotRows(tbl, code, report_dt) ==
    {r \in tbl : r.office_code = code /\ r.report_datetime = report_dt}

\* UNIQUE(office_code, forecast_date, report_datetime)
SameKey(r, q) ==
    /\ r.office_code = q.office_code
    /\ r.forecast_date = q.forecast_date
    /\ r.report_datetime = q.report_datetime

\* id INTEGER PRIMARY KEY AUTOINCREMENT: one more than the largest id
NextId(tbl) ==
    IF tbl = {} THEN 1
    ELSE (CHOOSE m \in {r.id : r \in tbl} : \A r \in tbl : r.id <= m) + 1

\* InsertOrIgnore without the UNIQUE constraint: a plain INSERT
InsertPlain(tbl, row) == tbl \cup {[id |-> NextId(tbl)] @@ row}

\* InsertOrIgnore as INSERT OR REPLACE
InsertOrReplace(tbl, row) ==
    {r \in tbl : ~SameKey(r, row)} \cup {[id |-> NextId(tbl)] @@ row}

\* INSERT OR IGNORE INTO forecasts: row carries every column but id
InsertOrIgnore(tbl, row) ==
    IF \E r \in tbl : SameKey(r, row) THEN tbl
    ELSE tbl \cup {[id |-> NextId(tbl)] @@ row}

\* None if d[f] == "-" else int(d[f])
DashToNull(c) == IF c.k = "dash" THEN CNone ELSE c

\* save_forecasts(code, report_dt, daily), from record i on
RECURSIVE save_from(_, _, _, _, _)
save_from(tbl, code, report_dt, daily, i) ==
    IF i > Len(daily) THEN tbl
    ELSE save_from(
            InsertOrIgnore(tbl,
                [office_code |-> code, forecast_date |-> daily[i].date,
                 report_datetime |-> report_dt, weather |-> daily[i].weather,
                 temp_min |-> DashToNull(daily[i].min),
                 temp_max |-> DashToNull(daily[i].max)]),
            code, report_dt, daily, i + 1)

save_forecasts(tbl, code, report_dt, daily) == save_from(tbl, code, report_dt, daily, 1)

Reverse(q) == [i \in 1..Len(q) |-> q[Len(q) + 1 - i]]

\* SELECT DISTINCT report_datetime ... ORDER BY report_datetime DESC LIMIT ?
get_report_history(tbl, code, limit) ==
    Prefix(Reverse(SortedKeys({r.report_datetime : r \in {q \in tbl : q.office_code = code}})),
           limit)

\* r["weather"] or "-"
WeatherOrDash(w) == IF Truthy(w) THEN w ELSE JStr(<<"-">>)

\* ORDER BY forecast_date ASC, rows of one date in rowid order
RowBefore(a, b) ==
    \/ StrLess(a.forecast_date, b.forecast_date)
    \/ a.forecast_date = b.forecast_date /\ a.id <= b.id

RECURSIVE SortedRows(_)
SortedRows(S) ==
    IF S = {} THEN <<>>
    ELSE LET m == CHOOSE x \in S : \A y \in S : RowBefore(x, y)
         IN  <<m>> \o SortedRows(S \ {m})

\* The out list for the rows fetched.
LoadedList(rows) ==
    [i \in 1..Len(rows) |->
        [date |-> rows[i].forecast_date, weather |-> WeatherOrDash(rows[i].weather),
         min |-> DashIfNone(rows[i].temp_min), max |-> DashIfNone(rows[i].temp_max)]]

\* load_forecasts(code, report_dt, limit_days)
load_forecasts(tbl, code, report_dt, limit_days) ==
    LoadedList(Prefix(SortedRows(SnapshotRows(tbl, code, report_dt)), limit_days))

\* SELECT MAX(report_datetime) ...; None (NoStr) when there is no row
latest_report_dt(tbl, code) ==
    LET S == {r.report_datetime : r \in {q \in tbl : q.office_code = code}}
    IN  IF S = {} THEN NoStr
        ELSE CHOOSE m \in S : \A x \in S : StrLeq(x, m)

\* WithinMinutes with < for <=
WithinMinutesStrict(dt, minutes, t, us) ==
    LET nowS == IF dt.aware THEN t ELSE t + LocalOffset
        dtS  == IF dt.aware THEN Instant(dt) ELSE dt.wall
        ds   == nowS - dtS - minutes * 60
    IN  ds < 0 \/ (ds = 0 /\ us < dt.us)

\* (now - dt) <= timedelta(minutes=minutes), with now = <<t, us>> read in the
\* zone of dt, or as local time when dt is naive
WithinMinutes(dt, minutes, t, us) ==
    LET nowS == IF dt.aware THEN t ELSE t + LocalOffset
        dtS  == IF dt.aware THEN Instant(dt) ELSE dt.wall
        ds   == nowS - dtS - minutes * 60
    IN  ds < 0 \/ (ds = 0 /\ us <= dt.us)

\* is_fresh(report_dt, minutes) with the clock read at <<t, us>>
is_fresh(report_dt, minutes, t, us) ==
    LET dt == parse_iso_dt(report_dt)
    IN  IF ~dt.ok THEN FALSE ELSE WithinMinutes(dt, minutes, t, us)

-----------------------------------------------------------------------------
(* Payloads the forecast URL serves                                        *)

Series(td, ar, w, tp, mn, mx) ==
    [k |-> "obj", timeDefines |-> td, areas |-> ar, weathers |-> w, temps |-> tp,
     tempsMin |-> mn, tempsMax |-> mx]
\* a number where timeSeries holds an object
NotSeries == [Series(JMissing, "missing", JMissing, JMissing, JMissing, JMissing)
                EXCEPT !.k = "num"]

\* timeSeries[0], [1] and [2] as the API lays them out
S0(times, ws)     == Series(JList(times), "ok", JList(ws), JMissing, JMissing, JMissing)
S1(times, tp)     == Series(JList(times), "ok", JMissing, JList(tp), JMissing, JMissing)
S2(times, mn, mx) == Series(JList(times), "ok", JMissing, JMissing, JList(mn), JList(mx))

Payload(report, ts) ==
    [top |-> "list", root |-> "obj", reportDatetime |-> report, tsk |-> "list", ts |-> ts]
EmptyPayload == [Payload(NoStr, <<>>) EXCEPT !.top = "empty"]

\* The JST timestamp of hour h, minute m of the k-th day from 2024-05-02.
JstAt(k, h, m) ==
    <<"2", "0", "2", "4", "-", "0", "5", "-">> \o Pad2(2 + k) \o <<"T">> \o Pad2(h)
        \o <<":">> \o Pad2(m) \o <<":", "0", "0", "+", "0", "9", ":", "0", "0">>
\* midnight (JST) of the k-th day, as a timeDefines entry
DayT(k) == JStr(JstAt(k, 0, 0))
\* hour h (JST) of the k-th day
HourT(k, h) == JStr(JstAt(k, h, 0))
Num(a, b) == JStr(<<DigitChar(a), DigitChar(b)>>)

\* a weather text
Weather(c) == JStr(<<c>>)

\* the report datetime the API issues: 09:10 JST, which is FreshMinutes
\* after the clock's start
R1 == JstAt(0, 9, FreshMinutes)

PA == Payload(R1, <<S0(<<DayT(0), DayT(1), DayT(2)>>, <<Weather("S"), Weather("C"), Weather("R")>>),
                    S1(<<HourT(0, 9), HourT(0, 12)>>, <<Num(1, 2), Num(1, 8)>>),
                    S2(<<DayT(1)>>, <<Num(1, 0)>>, <<Num(2, 0)>>)>>)
PA2 == Payload(R1, <<S0(<<DayT(0), DayT(1)>>, <<Weather("R"), Weather("R")>>)>>)
PN == Payload(NoStr, <<S0(<<DayT(0)>>, <<Weather("S")>>)>>)

FetchPayloads ==
    {PA, PA2, PN, EmptyPayload, [Payload(NoStr, <<>>) EXCEPT !.root = "num"]}

\* pick_daily_weather_and_temp on each of them, computed once
Normalized == [p \in FetchPayloads |-> pick_daily_weather_and_temp(p)]

\* What fetch_json does in one call: raises, or returns a payload.
FetchFails == [ok |-> FALSE, p |-> EmptyPayload]
Fetched(q) == [ok |-> TRUE, p |-> q]

\* What a handler run meets: the result of fetch_json and the sqlite3 call
\* that raises, if one does.
NoFaultRuns ==
    {[fr |-> FetchFails, fault |-> "none"]}
        \cup {[fr |-> Fetched(q), fault |-> "none"] : q \in FetchPayloads}

\* Clock readings of a handler run: the seconds since the previous run (or
\* the clock's start) and the sub-second part, in microseconds.
ClockReads ==
    {[d |-> FreshMinutes * 60, us |-> 0], [d |-> FreshMinutes * 60, us |-> 500000],
     [d |-> FreshMinutes * 60 + 1, us |-> 0]}

-----------------------------------------------------------------------------
(* UI: the closures of main(page).  A handler run is computed on a record  *)
(* st of everything it can change; exc is set when an exception is in      *)
(* flight.                                                                 *)

\* The offices of the sidebar: code, name, center code, center name.
NoOffice == [code |-> "", name |-> "", center_code |-> "", center_name |-> ""]
Offices ==
    {[code |-> "130000", name |-> "Tokyo", center_code |-> "010300", center_name |-> "Kanto"],
     [code |-> "270000", name |-> "Osaka", center_code |-> "010600", center_name |-> "Kinki"]}

\* rebuild_history_dropdown that always selects the first option
rebuild_history_dropdownFirst(st, code, select_report_dt) ==
    LET hist == get_report_history(st.forecasts, code, HistoryLimit)
    IN  [st EXCEPT !.hist_opts = hist,
                   !.history_dd = IF hist # <<>> THEN hist[1] ELSE NoStr]

\* rebuild_history_dropdown(code, select_report_dt)
rebuild_history_dropdown(st, code, select_report_dt) ==
    LET hist == get_report_history(st.forecasts, code, HistoryLimit)
    IN  [st EXCEPT
            !.hist_opts = hist,
            !.history_dd =
                IF select_report_dt # NoStr
                   /\ \E i \in 1..Len(hist) : hist[i] = select_report_dt
                THEN select_report_dt
                ELSE IF hist # <<>> THEN hist[1] ELSE NoStr]

\* render_from_db(code, report_dt); the notice shown for no data is the
\* empty cards row
render_from_db(st, code, report_dt) ==
    [st EXCEPT !.cards = load_forecasts(st.forecasts, code, report_dt, DayLimit),
               !.last_updated = report_dt]

\* An exception is raised; what the handler had done before stays done.
Raise(st) == [st EXCEPT !.exc = TRUE]

\* The sqlite3 call at site raises.
RaiseAt(st, site) == [st EXCEPT !.exc = TRUE, !.hit = site]

\* rebuild_history_dropdown, with the fault at site
RebuildAt(st, code, sel, fault, site) ==
    IF fault = site THEN RaiseAt(st, site) ELSE rebuild_history_dropdown(st, code, sel)

\* render_from_db, with the fault at site: cards.controls.clear() is done
\* before load_forecasts raises
RenderAt(st, code, report_dt, fault, site) ==
    IF fault = site THEN RaiseAt([st EXCEPT !.cards = <<>>], site)
    ELSE render_from_db(st, code, report_dt)

\* render_from_db(code, history_dd.value), unless the call before it raised
RenderValue(st, code, fault, site) ==
    IF st.exc THEN st ELSE RenderAt(st, code, st.history_dd, fault, site)

\* if history_dd.value: render_from_db(code, history_dd.value), unless the
\* call before it raised
RenderIfValue(st, code, fault, site) ==
    IF st.exc \/ st.history_dd = NoStr THEN st
    ELSE RenderAt(st, code, st.history_dd, fault, site)

\* CacheBranch after a call of fetch_json
CacheBranchFetching(st, code, latest, fault) ==
    RenderValue(RebuildAt([st EXCEPT !.status = "cache", !.source = "cache",
                                     !.fetched = TRUE],
                          code, latest, fault, "cache_hist"),
                code, fault, "cache_load")

\* lines 420-423: the cache branch
CacheBranch(st, code, latest, fault) ==
    RenderValue(RebuildAt([st EXCEPT !.status = "cache", !.source = "cache"],
                          code, latest, fault, "cache_hist"),
                code, fault, "cache_load")

\* line 440: save_forecasts(code, report_dt, daily)
SaveAt(st, code, report_dt, daily, fault) ==
    IF fault = "save" THEN RaiseAt(st, "save")
    ELSE [st EXCEPT !.forecasts = save_forecasts(st.forecasts, code, report_dt, daily)]

\* lines 432-440: if daily: upsert_area(...); save_forecasts(...)
SaveStep(st, off, report_dt, daily, fault, t, us) ==
    IF daily = <<>> THEN st
    ELSE IF fault = "upsert" THEN RaiseAt(st, "upsert")
    ELSE SaveAt([st EXCEPT !.areas = upsert_area(st.areas, off.code, off.name,
                                        off.center_code, off.center_name, t, us)],
                off.code, report_dt, daily, fault)

\* line 446: set_status("DBから表示OK ..."), unless a call before it raised
SetOk(st) == IF st.exc THEN st ELSE [st EXCEPT !.status = "fetched", !.source = "fetched"]

\* lines 442-446: rebuild history + show newest, unless the save raised
ShowNewest(st, code, report_dt, fault) ==
    IF st.exc THEN st
    ELSE SetOk(RenderIfValue(RebuildAt(st, code, report_dt, fault, "hist"),
                             code, fault, "load"))

\* What the reducer did, as the variable out holds it.
OutOf(n) == [done |-> TRUE, err |-> n.err, recs |-> n.recs]

\* The run having obtained report_dt and the reducer's result n on payload p.
Noted(st, code, p, report_dt, n) ==
    [st EXCEPT !.fetch_ok = TRUE, !.report_dt = report_dt, !.daily = n.recs,
               !.raw = p, !.out = OutOf(n),
               !.pre_rows = Cardinality(SnapshotRows(st.forecasts, code, report_dt))]

\* lines 430-446: from daily = pick_daily_weather_and_temp(data) on
AfterFetch(st, off, report_dt, daily, fault, t, us) ==
    IF st.out.err THEN Raise(st)
    ELSE ShowNewest(SaveStep(st, off, report_dt, daily, fault, t, us),
                    off.code, report_dt, fault)

\* lines 429-446: from report_dt = extract_report_datetime(data) on
WithReport(st, off, p, report_dt, fault, t, us) ==
    AfterFetch(Noted(st, off.code, p, report_dt, Normalized[p]), off, report_dt,
               Normalized[p].recs, fault, t, us)

\* lines 428-446: the body of try.  fr is what fetch_json does: it raises
\* (fr.ok = FALSE) or returns the payload fr.p.
TryBody(st, off, fr, fault, t, us) ==
    IF ~fr.ok THEN Raise([st EXCEPT !.fetched = TRUE])
    ELSE WithReport([st EXCEPT !.fetched = TRUE], off, fr.p,
                    extract_report_datetime(fr.p, t, us), fault, t, us)

\* The exception caught, and set_status("API失敗 ...")
Caught(st) ==
    [st EXCEPT !.exc = FALSE, !.caught = TRUE,
               !.status = "stale-fallback", !.source = "stale-fallback"]

\* ExceptBody ending with raise
ExceptBodyReraising(st, code, fault) ==
    Raise(IF fault = "fb_latest" THEN RaiseAt(Caught(st), "fb_latest")
          ELSE RenderIfValue(RebuildAt(Caught(st), code,
                                       latest_report_dt(st.forecasts, code),
                                       fault, "fb_hist"),
                             code, fault, "fb_load"))

\* lines 448-454: except Exception as ex: ...
ExceptBody(st, code, fault) ==
    IF fault = "fb_latest" THEN RaiseAt(Caught(st), "fb_latest")
    ELSE RenderIfValue(RebuildAt(Caught(st), code,
                                 latest_report_dt(st.forecasts, code),
                                 fault, "fb_hist"),
                       code, fault, "fb_load")

\* try ... except Exception: the handler runs when the body raised
Handled(st, code, fault) == IF st.exc THEN ExceptBody(st, code, fault) ELSE st

\* lines 425-456: set_loading(True); try ... except ... finally set_loading(False)
FetchBranch(st, off, fr, fault, t, us) ==
    [Handled(TryBody([st EXCEPT !.loading = TRUE, !.status = "fetching"],
                     off, fr, fault, t, us),
             off.code, fault)
        EXCEPT !.loading = FALSE]

\* The cache test of line 419
UseCache(force, latest, t, us) ==
    (~force) /\ latest # NoStr /\ is_fresh(latest, FreshMinutes, t, us)

\* lines 419-456, latest being what latest_report_dt returned
Dispatch(st, off, force, latest, fr, fault, t, us) ==
    IF UseCache(force, latest, t, us)
    THEN CacheBranch(st, off.code, latest, fault)
    ELSE FetchBranch(st, off, fr, fault, t, us)

\* fetch_save_and_show(force), for the office off, the clock read at <<t, us>>
fetch_save_and_show(st, off, force, fr, fault, t, us) ==
    IF off.code = "" \/ off.name = "" THEN [st EXCEPT !.skipped = TRUE]
    ELSE IF fault = "latest" THEN RaiseAt(st, "latest")
    ELSE Dispatch([st EXCEPT !.latest = latest_report_dt(st.forecasts, off.code)],
                  off, force, latest_report_dt(st.forecasts, off.code), fr, fault, t, us)

-----------------------------------------------------------------------------
(* The application                                                         *)

MaxCalls == 2
MaxFaults == 1

NoCall ==
    [op |-> "none", office |-> NoOffice, force |-> FALSE, hit |-> "none", us |-> 0,
     exc |-> FALSE, caught |-> FALSE, fetched |-> FALSE, fetch_ok |-> FALSE,
     report_dt |-> NoStr, daily |-> <<>>, pre_rows |-> 0, latest |-> NoStr,
     source |-> "none", skipped |-> FALSE]

NoOut == [done |-> FALSE, err |-> FALSE, recs |-> <<>>]

\* No save_forecasts call in progress.
NoSaves == [base |-> {}, w |-> <<>>, log |-> <<>>]

Init ==
    /\ forecasts = {}
    /\ areas = {}
    /\ now = 0
    /\ current = NoOffice
    /\ status = "none"
    /\ last_updated = NoStr
    /\ cards = <<>>
    /\ history_dd = NoStr
    /\ hist_opts = <<>>
    /\ loading = FALSE
    /\ call = NoCall
    /\ ncalls = 0
    /\ nfaults = 0
    /\ raw = EmptyPayload
    /\ out = NoOut
    /\ saves = NoSaves

\* The handler's view of the state as it starts.
Start(op, off, force, us) ==
    [forecasts |-> forecasts, areas |-> areas, status |-> status,
     last_updated |-> last_updated, cards |-> cards, history_dd |-> history_dd,
     hist_opts |-> hist_opts, loading |-> loading, raw |-> raw, out |-> out,
     op |-> op, office |-> off, force |-> force, hit |-> "none", us |-> us,
     exc |-> FALSE, caught |-> FALSE, fetched |-> FALSE, fetch_ok |-> FALSE,
     report_dt |-> NoStr, daily |-> <<>>, pre_rows |-> 0, latest |-> NoStr,
     source |-> "none", skipped |-> FALSE]

\* The state the handler leaves.
Finish(st) ==
    /\ forecasts' = st.forecasts
    /\ areas' = st.areas
    /\ status' = st.status
    /\ last_updated' = st.last_updated
    /\ cards' = st.cards
    /\ history_dd' = st.history_dd
    /\ hist_opts' = st.hist_opts
    /\ loading' = st.loading
    /\ raw' = st.raw
    /\ out' = st.out
    /\ call' = [f \in DOMAIN NoCall |-> st[f]]
    /\ ncalls' = ncalls + 1
    /\ nfaults' = IF st.hit = "none" THEN nfaults ELSE nfaults + 1
    /\ UNCHANGED saves

\* render_forecast(code, name, center_code, center_name): a sidebar tile is
\* clicked, ck.d seconds after the previous handler ran
render_forecast(off, run, ck) ==
    /\ ncalls < MaxCalls
    /\ now' = now + ck.d
    /\ current' = off
    /\ Finish(fetch_save_and_show(Start("render_forecast", off, FALSE, ck.us),
                                  off, FALSE, run.fr, run.fault, now + ck.d, ck.us))

\* on_refresh_click(e)
on_refresh_click(run, ck) ==
    /\ ncalls < MaxCalls
    /\ now' = now + ck.d
    /\ Finish(fetch_save_and_show(Start("on_refresh_click", current, TRUE, ck.us),
                                  current, TRUE, run.fr, run.fault, now + ck.d, ck.us))
    /\ UNCHANGED current

\* lines 404-407 on the selection h
HistoryShown(st, code, h, fault) ==
    IF code = "" \/ h = NoStr THEN [st EXCEPT !.skipped = TRUE]
    ELSE RenderAt([st EXCEPT !.status = "history"], code, h, fault, "load")

\* on_history_change(e), the user having picked option h of the dropdown
on_history_change(h, fault, ck) ==
    /\ ncalls < MaxCalls
    /\ now' = now + ck.d
    /\ Finish(HistoryShown([Start("on_history_change", current, FALSE, ck.us)
                               EXCEPT !.history_dd = h],
                           current.code, h, fault))
    /\ UNCHANGED current

\* What a handler run may meet: sqlite3 raises at most MaxFaults times.  The
\* sites inside try are met with a payload that reaches them, those of the
\* except clause with a failing fetch.
Runs ==
    IF nfaults < MaxFaults
    THEN NoFaultRuns
            \cup {[fr |-> Fetched(PA), fault |-> f] :
                    f \in {"latest", "cache_hist", "cache_load", "upsert", "save",
                           "hist", "load"}}
            \cup {[fr |-> FetchFails, fault |-> f] :
                    f \in {"fb_latest", "fb_hist", "fb_load"}}
    ELSE NoFaultRuns

Next ==
    \/ \E off \in Offices, run \in Runs, ck \in ClockReads : render_forecast(off, run, ck)
    \/ \E run \in Runs, ck \in ClockReads : on_refresh_click(run, ck)
    \/ \E i \in 1..Len(hist_opts), ck \in ClockReads,
            fault \in {r.fault : r \in Runs} \cap {"none", "load"} :
                on_history_change(hist_opts[i], fault, ck)

Spec == Init /\ [][Next]_vars

-----------------------------------------------------------------------------
(* The application on a store that earlier handler runs have filled: the   *)
(* first office of the sidebar was clicked and then refreshed, each run    *)
(* meeting the payload p at the clock reading <<t, us>>.                  *)

KeptOffice == CHOOSE o \in Offices : o.code = "130000"

\* The state after the first n of the runs, from the page main(page) has
\* just built over the tables init_db() has just created: render_forecast
\* on KeptOffice, then on_refresh_click.
RECURSIVE KeptAfter(_, _)
KeptAfter(runs, n) ==
    IF n = 0
    THEN [forecasts |-> {}, areas |-> {}, status |-> "none", last_updated |-> NoStr,
          cards |-> <<>>, history_dd |-> NoStr, hist_opts |-> <<>>, loading |-> FALSE,
          raw |-> EmptyPayload, out |-> NoOut] @@ NoCall
    ELSE LET prev == KeptAfter(runs, n - 1)
         IN  IF prev.exc THEN prev
             ELSE fetch_save_and_show(
                     [NoCall EXCEPT
                         !.op = IF n = 1 THEN "render_forecast" ELSE "on_refresh_click",
                         !.office = KeptOffice, !.force = n > 1, !.us = runs[n].us]
                         @@ prev,
                     KeptOffice, n > 1, Fetched(runs[n].p), "none", runs[n].t, runs[n].us)

\* The runs that filled the store.  Either the report of 09:10 JST fetched
\* at 00:10 UTC, then the payload without reportDatetime at 00:20:00.5 UTC;
\* or n refreshes that met the payload without reportDatetime, one second
\* apart from 09:10:01 UTC on, the first second at which the UTC clock reads
\* a string greater, byte by byte, than R1: n short of the limit of
\* rebuild_history_dropdown, and at it.
KeptRuns ==
    {<<[p |-> PA, t |-> FreshMinutes * 60, us |-> 0],
       [p |-> PN, t |-> 2 * FreshMinutes * 60, us |-> 500000]>>}
        \cup {[k \in 1..n |-> [p |-> PN, t |-> (9 * 60 + FreshMinutes) * 60 + k, us |-> 0]] :
                n \in {2, HistoryLimit}}

InitKept ==
    \E runs \in KeptRuns :
        LET st == KeptAfter(runs, Len(runs))
        IN  /\ forecasts = st.forecasts
            /\ areas = st.areas
            /\ now = runs[Len(runs)].t
            /\ current = KeptOffice
            /\ status = st.status
            /\ last_updated = st.last_updated
            /\ cards = st.cards
            /\ history_dd = st.history_dd
            /\ hist_opts = st.hist_opts
            /\ loading = st.loading
            /\ call = [f \in DOMAIN NoCall |-> st[f]]
            /\ ncalls = 0
            /\ nfaults = 0
            /\ raw = st.raw
            /\ out = st.out
            /\ saves = NoSaves

\* A run on the kept store meets the payload of three days or a failing
\* fetch, sqlite3 working, the clock at the freshness boundary or a second
\* past it; the user picks one of the first two options of the dropdown.
NextKept ==
    \/ \E off \in Offices, fr \in {Fetched(PA), FetchFails},
            ck \in {c \in ClockReads : c.us = 0} :
                render_forecast(off, [fr |-> fr, fault |-> "none"], ck)
    \/ \E fr \in {Fetched(PA), FetchFails}, ck \in {c \in ClockReads : c.us = 0} :
            on_refresh_click([fr |-> fr, fault |-> "none"], ck)
    \/ \E i \in 1..Min2(2, Len(hist_opts)), ck \in {c \in ClockReads : c.us = 0} :
            on_history_change(hist_opts[i], "none", ck)

SpecKept == InitKept /\ [][NextKept]_vars

-----------------------------------------------------------------------------
(* save_forecasts called on several connections at once (handlers run on   *)
(* threads of their own).  Each INSERT OR IGNORE is one atomic statement   *)
(* that sees the rows written before it; the statements of the calls run   *)
(* in any order.  SQLite's write lock lets through the orders in which one *)
(* call's statements all precede the other's, which are among these.       *)

MaxWriters == 2

\* Each call saves, for KeptOffice and the report R1, what the reducer
\* returns for one of the payloads served.  The table before the calls is
\* empty, holds another snapshot of the office, or holds part of the
\* snapshot saved.
InitSave ==
    /\ forecasts \in
          {{}, save_forecasts({}, KeptOffice.code, JstAt(0, 3, 0), Normalized[PN].recs),
           save_forecasts({}, KeptOffice.code, R1, Normalized[PA2].recs)}
    /\ saves \in {[base |-> forecasts, w |-> ws, log |-> <<>>] :
                    ws \in [1..MaxWriters ->
                              [code : {KeptOffice.code}, report_dt : {R1},
                               daily : {Normalized[p].recs : p \in {PA, PA2, PN}},
                               i : {1}]]}
    /\ areas = {}
    /\ now = 0
    /\ current = KeptOffice
    /\ status = "fetching"
    /\ last_updated = NoStr
    /\ cards = <<>>
    /\ history_dd = NoStr
    /\ hist_opts = <<>>
    /\ loading = TRUE
    /\ call = NoCall
    /\ ncalls = 0
    /\ nfaults = 0
    /\ raw = EmptyPayload
    /\ out = NoOut

\* lines 205-215: the call w runs its next conn.execute("INSERT OR IGNORE ...")
SaveInsert(w) ==
    /\ saves.w[w].i <= Len(saves.w[w].daily)
    /\ forecasts' = save_from(forecasts, saves.w[w].code, saves.w[w].report_dt,
                              Prefix(saves.w[w].daily, saves.w[w].i), saves.w[w].i)
    /\ saves' = [saves EXCEPT !.w[w].i = @ + 1, !.log = Append(@, w)]
    /\ UNCHANGED <<areas, now, current, status, last_updated, cards, history_dd,
                   hist_opts, loading, call, ncalls, nfaults, raw, out>>

NextSave == \E w \in 1..MaxWriters : SaveInsert(w)

SpecSave == InitSave /\ [][NextSave]_vars

-----------------------------------------------------------------------------
(* The reducer on its own: payloads of every shape are handed to           *)
(* pick_daily_weather_and_temp.                                            *)

MaxLen == 4

\* n consecutive days from day start, as timeDefines
DaysRun(start, n) == [i \in 1..n |-> DayT(start + i - 1)]

\* Values the API's temperature arrays hold: numerals, the empty string,
\* null, numbers, text.
TempVals ==
    <<Num(1, 2), Num(0, 5), JStr(<<>>), JStr(<<"-", "3">>), JNum(7), JNull,
      JStr(<<"x">>), JNum(0)>>
TempsRun(k, n) == [i \in 1..n |-> TempVals[((k + i - 1) % Len(TempVals)) + 1]]

\* n weathers: texts, and a null at every fourth place from the third
WeathersRun(n) ==
    [i \in 1..n |-> <<Weather("S"), Weather("C"), JNull, Weather("R")>>[((i - 1) % 4) + 1]]

\* The well-formed payload with the given runs in its three series; the
\* hourly timeDefines come two to a day.
WellFormed(a0, a1, a2) ==
    Payload(R1,
        <<S0(DaysRun(a0.start, a0.n), WeathersRun(a0.n)),
          S1([i \in 1..a1.n |-> HourT(a1.start + (i - 1) \div 2, 3 + 6 * ((i - 1) % 2))],
             TempsRun(a1.k, a1.n)),
          S2(DaysRun(a2.start, a2.n), TempsRun(a2.k, a2.n), TempsRun(a2.k + 3, a2.n))>>)

\* v with its first entry replaced by x
FirstReplaced(v, x) == [i \in 1..Len(v) |-> IF i = 1 THEN x ELSE v[i]]

\* The ways a payload departs from the well-formed one.
Shapes ==
    {"ok", "not_list", "empty", "root_num", "ts_missing", "ts_num", "only_s0", "no_s2",
     "s0_num", "s0_no_td", "s0_td_num", "s0_no_areas", "s0_no_weathers",
     "s0_weathers_num", "s0_td_has_num", "s0_td_garbage", "s0_short",
     "s1_num", "s1_no_td", "s1_td_num", "s1_no_temps", "s1_temps_num", "s1_td_has_num",
     "s2_num", "s2_no_td", "s2_td_num", "s2_no_min", "s2_no_max", "s2_min_num",
     "s2_max_num", "s2_td_has_num"}

Shaped(p, sh) ==
    CASE sh = "not_list"   -> [p EXCEPT !.top = "other"]
      [] sh = "empty"      -> [p EXCEPT !.top = "empty"]
      [] sh = "root_num"   -> [p EXCEPT !.root = "num"]
      [] sh = "ts_missing" -> [p EXCEPT !.tsk = "missing"]
      [] sh = "ts_num"     -> [p EXCEPT !.tsk = "num"]
      [] sh = "only_s0"    -> [p EXCEPT !.ts = SubSeq(@, 1, 1)]
      [] sh = "no_s2"      -> [p EXCEPT !.ts = SubSeq(@, 1, 2)]
      [] sh = "s0_num"     -> [p EXCEPT !.ts[1] = NotSeries]
      [] sh = "s0_no_td"   -> [p EXCEPT !.ts[1].timeDefines = JMissing]
      [] sh = "s0_td_num"  -> [p EXCEPT !.ts[1].timeDefines = JNotArray]
      [] sh = "s0_no_areas" -> [p EXCEPT !.ts[1].areas = "missing"]
      [] sh = "s0_no_weathers" -> [p EXCEPT !.ts[1].weathers = JMissing]
      [] sh = "s0_weathers_num" -> [p EXCEPT !.ts[1].weathers = JNotArray]
      [] sh = "s0_td_has_num" -> [p EXCEPT !.ts[1].timeDefines.v = FirstReplaced(@, JNum(5))]
      [] sh = "s0_td_garbage" ->
            [p EXCEPT !.ts[1].timeDefines.v =
                        FirstReplaced(@, JStr(<<"2", "0", "2", "4", "-", "0", "5">>))]
      [] sh = "s0_short"   -> [p EXCEPT !.ts[1].weathers.v = SubSeq(@, 1, Len(@) - 1)]
      [] sh = "s1_num"     -> [p EXCEPT !.ts[2] = NotSeries]
      [] sh = "s1_no_td"   -> [p EXCEPT !.ts[2].timeDefines = JMissing]
      [] sh = "s1_td_num"  -> [p EXCEPT !.ts[2].timeDefines = JNotArray]
      [] sh = "s1_no_temps" -> [p EXCEPT !.ts[2].temps = JMissing]
      [] sh = "s1_temps_num" -> [p EXCEPT !.ts[2].temps = JNotArray]
      [] sh = "s1_td_has_num" -> [p EXCEPT !.ts[2].timeDefines.v = FirstReplaced(@, JNull)]
      [] sh = "s2_num"     -> [p EXCEPT !.ts[3] = NotSeries]
      [] sh = "s2_no_td"   -> [p EXCEPT !.ts[3].timeDefines = JMissing]
      [] sh = "s2_td_num"  -> [p EXCEPT !.ts[3].timeDefines = JNotArray]
      [] sh = "s2_no_min"  -> [p EXCEPT !.ts[3].tempsMin = JMissing]
      [] sh = "s2_no_max"  -> [p EXCEPT !.ts[3].tempsMax = JMissing]
      [] sh = "s2_min_num" -> [p EXCEPT !.ts[3].tempsMin = JNotArray]
      [] sh = "s2_max_num" -> [p EXCEPT !.ts[3].tempsMax = JNotArray]
      [] sh = "s2_td_has_num" -> [p EXCEPT !.ts[3].timeDefines.v = FirstReplaced(@, JNum(5))]
      [] OTHER -> p

\* Runs of timeDefines: the day they start at and their length; k picks
\* where in TempVals the temperatures start.
Runs12 == [start : {0, MaxLen}, n : {0, 1, MaxLen}, k : {0, 1}]

NormInputs ==
    {Shaped(WellFormed(a0, a1, a2), sh) :
        a0 \in [start : {0, MaxLen}, n : {0, 1, MaxLen}], a1 \in Runs12, a2 \in Runs12, sh \in Shapes}

InitNorm ==
    /\ forecasts = {}
    /\ areas = {}
    /\ now = 0
    /\ current = NoOffice
    /\ status = "none"
    /\ last_updated = NoStr
    /\ cards = <<>>
    /\ history_dd = NoStr
    /\ hist_opts = <<>>
    /\ loading = FALSE
    /\ call = NoCall
    /\ ncalls = 0
    /\ nfaults = 0
    /\ raw \in NormInputs
    /\ out = NoOut
    /\ saves = NoSaves

\* daily = pick_daily_weather_and_temp(data)
Normalize ==
    /\ ~out.done
    /\ out' = OutOf(pick_daily_weather_and_temp(raw))
    /\ UNCHANGED <<forecasts, areas, now, current, status, last_updated, cards,
                   history_dd, hist_opts, loading, call, ncalls, nfaults, raw, saves>>

SpecNorm == InitNorm /\ [][Normalize]_vars

-----------------------------------------------------------------------------
(* Properties of the application (checked under Spec)                      *)

\* The last handler run was fetch_save_and_show(force=False) and read the
\* latest report_datetime, which parses.
C1Applies ==
    /\ call.op = "render_forecast" /\ ~call.skipped /\ call.hit # "latest"
    /\ call.latest # NoStr
    /\ parse_iso_dt(call.latest).ok /\ parse_iso_dt(call.latest).aware

\* Whole seconds, and microseconds, between call.latest and the clock
\* reading of the last run.
C1AgeSec == now - Instant(parse_iso_dt(call.latest))
C1AgeMicro == call.us - parse_iso_dt(call.latest).us

\* C1: with force=False, a latest report_datetime exactly 10 minutes before
\* now is served from the store, tagged "cache", without a fetch; one that
\* is 10 minutes and 1 second before now makes the call fetch.
C1_FreshnessBoundary ==
    C1Applies =>
        /\ (C1AgeSec = 10 * 60 /\ C1AgeMicro = 0) =>
              /\ call.source = "cache" /\ ~call.fetched
              /\ call.hit = "none" =>
                    /\ cards = load_forecasts(forecasts, call.office.code, call.latest, 6)
                    /\ last_updated = call.latest
        /\ (C1AgeSec = 10 * 60 + 1 /\ C1AgeMicro = 0) => call.fetched

C1_Witness ==
    /\ C1Applies /\ C1AgeSec = 10 * 60 /\ C1AgeMicro = 0
    /\ call.source = "cache" /\ call.hit = "none" /\ cards # <<>>

\* C1, second case: the run at 10 minutes + 1 second is reached too.
C1_WitnessStale ==
    C1Applies /\ C1AgeSec = 10 * 60 + 1 /\ C1AgeMicro = 0 /\ call.fetched

\* This step is fetch_save_and_show(force=False) finding the office's latest
\* snapshot fresh.
C2Hit ==
    /\ ncalls' = ncalls + 1
    /\ call'.op = "render_forecast" /\ ~call'.skipped /\ call'.hit # "latest"
    /\ latest_report_dt(forecasts, call'.office.code) # NoStr
    /\ is_fresh(latest_report_dt(forecasts, call'.office.code), 10, now', call'.us)

\* C2: a cache hit is a pure read: no fetch, forecasts and areas unchanged,
\* and the records shown are load(office, latest, 6).
C2_CacheHitPureRead ==
    [][C2Hit =>
          /\ ~call'.fetched /\ call'.source = "cache"
          /\ forecasts' = forecasts /\ areas' = areas
          /\ call'.hit = "none" =>
                cards' = load_forecasts(forecasts, call'.office.code,
                                        latest_report_dt(forecasts, call'.office.code), 6)
       ]_vars

C2_Witness ==
    /\ call.op = "render_forecast" /\ call.source = "cache" /\ call.hit = "none"
    /\ ~call.fetched /\ cards # <<>> /\ areas # {}

\* C3: a failing fetch, with a snapshot of the office in the store and no
\* sqlite3 failure, shows the records of latest_report_dt tagged
\* "stale-fallback", and no exception leaves the handler.
C3_StaleFallback ==
    (/\ call.fetched /\ ~call.fetch_ok /\ call.hit = "none"
     /\ latest_report_dt(forecasts, call.office.code) # NoStr)
    => /\ ~call.exc
       /\ call.source = "stale-fallback"
       /\ cards = load_forecasts(forecasts, call.office.code,
                                 latest_report_dt(forecasts, call.office.code), 6)
       /\ last_updated = latest_report_dt(forecasts, call.office.code)

C3_Witness ==
    /\ call.fetched /\ ~call.fetch_ok /\ call.hit = "none"
    /\ call.source = "stale-fallback" /\ cards # <<>>

\* The run c called save_forecasts(c.office.code, c.report_dt, c.daily), and
\* the call returned.
Saved(c) == c.fetch_ok /\ c.daily # <<>> /\ c.hit \notin {"upsert", "save"}

\* C4: save_forecasts called again with the arguments of the previous call
\* leaves the rows of the snapshot, their number and what load_forecasts
\* returns unchanged.
C4_SaveIdempotent ==
    [][(/\ ncalls' = ncalls + 1 /\ Saved(call) /\ Saved(call')
        /\ call'.office.code = call.office.code
        /\ call'.report_dt = call.report_dt
        /\ call'.daily = call.daily)
       => /\ forecasts' = forecasts
          /\ Cardinality(SnapshotRows(forecasts', call.office.code, call.report_dt))
                = Cardinality(SnapshotRows(forecasts, call.office.code, call.report_dt))
          /\ load_forecasts(forecasts', call.office.code, call.report_dt, 6)
                = load_forecasts(forecasts, call.office.code, call.report_dt, 6)
      ]_vars

\* Three records saved over the three rows already there: three rows, and
\* three records loaded.
C4_Witness ==
    /\ Saved(call) /\ Len(call.daily) = 3 /\ call.pre_rows = 3
    /\ Cardinality(SnapshotRows(forecasts, call.office.code, call.report_dt)) = 3
    /\ Len(load_forecasts(forecasts, call.office.code, call.report_dt, 6)) = 3

\* C5: a stored row is never removed and never changed: every row stays,
\* and stays the only row of its (office, date, report_datetime).
C5_SnapshotsImmutable ==
    [][\A r \in forecasts :
          /\ r \in forecasts'
          /\ \A q \in forecasts' : SameKey(q, r) => q = r]_vars

\* A save that brought another weather for a stored (office, date,
\* report_datetime) has run.
C5_Witness ==
    /\ Saved(call) /\ call.pre_rows > 0
    /\ \E i \in DOMAIN call.daily :
          \E r \in SnapshotRows(forecasts, call.office.code, call.report_dt) :
              r.forecast_date = call.daily[i].date /\ r.weather # call.daily[i].weather

\* C9: a sqlite3 call that raises during a handler run propagates out of
\* the handler.
C9_StorageErrorPropagates == call.hit # "none" => call.exc

\* a is an earlier instant than b (both parse, both carry an offset)
ChronoLess(a, b) ==
    LET x == parse_iso_dt(a)
        y == parse_iso_dt(b)
    IN  Instant(x) < Instant(y) \/ (Instant(x) = Instant(y) /\ x.us < y.us)

StoredReports(code) == {r.report_datetime : r \in {q \in forecasts : q.office_code = code}}

\* C10: latest_report_dt is the chronologically latest stored
\* report_datetime of the office, and None exactly when it has no row.
C10_LatestIsMostRecent ==
    \A o \in Offices :
        /\ (latest_report_dt(forecasts, o.code) = NoStr) <=> (StoredReports(o.code) = {})
        /\ \A x \in StoredReports(o.code) :
              ~ChronoLess(latest_report_dt(forecasts, o.code), x)

\* C11: a call whose fetch fails for an office without a stored row (no
\* sqlite3 failure) leaves no record and no report_datetime on display,
\* reports the failure in the status line and raises nothing.
C11_NoDataShown ==
    (/\ call.fetched /\ ~call.fetch_ok /\ call.hit = "none"
     /\ StoredReports(call.office.code) = {})
    => /\ ~call.exc
       /\ call.source = "stale-fallback"
       /\ cards = <<>>
       /\ last_updated = NoStr

\* C17: once an office is selected and its call has completed (sqlite3 never
\* having raised), the records on display are none or those of the snapshot
\* of that office named in last_updated, and last_updated is empty or a
\* report_datetime stored for that office.
C17_ShownIsOfCurrentOffice ==
    (current # NoOffice /\ nfaults = 0) =>
        /\ cards = <<>>
              \/ cards = load_forecasts(forecasts, current.code, last_updated, 6)
        /\ last_updated = NoStr \/ last_updated \in StoredReports(current.code)

\* The rows of areas for the office of the run c.
AreaRows(tbl, c) == {r \in tbl : r.office_code = c.office.code}

\* The row upsert_area writes in the run c, the clock reading t seconds.
AreaRowOf(c, t) ==
    [office_code |-> c.office.code, office_name |-> c.office.name,
     center_code |-> c.office.center_code, center_name |-> c.office.center_name,
     updated_at |-> IsoLocalNow(t, c.us)]

\* C13 as claimed: after a call whose fetch returned (no sqlite3 failure),
\* areas holds one row for the office, with the name and center passed in
\* and updated_at the time of the call.
C13_UpsertOnEveryFetch ==
    (call.fetch_ok /\ call.hit = "none") => AreaRows(areas, call) = {AreaRowOf(call, now)}

\* C13 as amended: a call whose fetch returned and whose normalized list is
\* not empty leaves exactly that row for the office, unless upsert_area
\* itself raised; one whose normalized list is empty leaves areas as it was.
C13_UpsertWhenDaily ==
    [][(ncalls' = ncalls + 1 /\ call'.fetch_ok /\ call'.hit # "upsert") =>
          IF call'.daily # <<>>
          THEN AreaRows(areas', call') = {AreaRowOf(call', now')}
          ELSE areas' = areas
      ]_vars

\* The row of an office saved before has been overwritten with the time of
\* this call.
C13_Witness ==
    /\ Saved(call) /\ call.hit = "none" /\ call.pre_rows > 0
    /\ AreaRows(areas, call) = {AreaRowOf(call, now)}

-----------------------------------------------------------------------------
(* Properties of the application on a kept store (checked under SpecKept)  *)

\* This step is a run of fetch_save_and_show that got past its first line.
C12Call ==
    /\ ncalls' = ncalls + 1
    /\ call'.op \in {"render_forecast", "on_refresh_click"}
    /\ ~call'.skipped /\ call'.hit # "latest"

\* C12: a call with force=True calls fetch_json whatever the store holds; a
\* call with force=False calls it exactly when no report_datetime stored for
\* the office is fresh at the time of the call.
C12_ForceAndFreshness ==
    [][C12Call =>
          /\ call'.force => call'.fetched
          /\ ~call'.force =>
                (call'.fetched <=>
                    ~\E x \in StoredReports(call'.office.code) :
                        is_fresh(x, 10, now', call'.us))
       ]_vars

\* The last run fetched, reduced, saved if there was anything to save, and
\* showed the result, no call raising.
C15Shown == call.fetch_ok /\ call.hit = "none" /\ ~call.caught /\ ~call.exc

\* The report_datetime strings of the office greater, byte by byte, than x.
GreaterReports(code, x) == {y \in StoredReports(code) : StrLess(x, y)}

\* C15 as claimed: after a fetch whose normalized list is not empty the
\* snapshot selected and shown is the one of the report_datetime just saved,
\* tagged "fetched", whatever else the store holds.
C15_ExactReportShown ==
    (C15Shown /\ call.daily # <<>>) =>
        /\ call.source = "fetched"
        /\ history_dd = call.report_dt
        /\ last_updated = call.report_dt
        /\ cards = load_forecasts(forecasts, call.office.code, call.report_dt, 6)

\* C15 as amended: the report_datetime just fetched is selected when it is
\* stored and fewer than 30 stored strings of the office are greater;
\* otherwise the greatest stored string is, or nothing when there is none.
\* What is selected is what is shown, tagged "fetched".
C15_ExactWithinLimit ==
    C15Shown =>
        /\ call.source = "fetched"
        /\ history_dd =
              IF /\ call.report_dt \in StoredReports(call.office.code)
                 /\ Cardinality(GreaterReports(call.office.code, call.report_dt)) < 30
              THEN call.report_dt
              ELSE latest_report_dt(forecasts, call.office.code)
        /\ call.daily # <<>> => call.report_dt \in StoredReports(call.office.code)
        /\ history_dd # NoStr =>
              /\ last_updated = history_dd
              /\ cards = load_forecasts(forecasts, call.office.code, history_dd, 6)

\* The report just saved is stored, 30 stored strings are greater, and the
\* greatest of them is shown in its place.
C15_Witness ==
    /\ C15Shown /\ call.daily # <<>>
    /\ call.report_dt \in StoredReports(call.office.code)
    /\ history_dd # call.report_dt
    /\ history_dd = latest_report_dt(forecasts, call.office.code)
    /\ last_updated = history_dd /\ cards # <<>>

-----------------------------------------------------------------------------
(* Properties of concurrent saves (checked under SpecSave)                 *)

\* Every save_forecasts call has run its last insert.
SavesDone == \A w \in DOMAIN saves.w : saves.w[w].i > Len(saves.w[w].daily)

\* The calls carry the same records.
SameRecords == \A w \in DOMAIN saves.w : saves.w[w].daily = saves.w[1].daily

\* C14: with the inserts of the save_forecasts calls for one (office,
\* report_datetime) run in any order, no two rows ever share (office, date,
\* report_datetime); when the calls are done every record has its row, and
\* if they carried the same records the table is what one call leaves.
C14_ConcurrentSaves ==
    /\ \A r, q \in forecasts : SameKey(r, q) => r = q
    /\ SavesDone =>
          /\ \A w \in DOMAIN saves.w : \A k \in 1..Len(saves.w[w].daily) :
                Cardinality({r \in SnapshotRows(forecasts, saves.w[w].code,
                                                 saves.w[w].report_dt) :
                                r.forecast_date = saves.w[w].daily[k].date}) = 1
          /\ SameRecords =>
                forecasts = save_forecasts(saves.base, saves.w[1].code,
                                           saves.w[1].report_dt, saves.w[1].daily)

\* Two calls with the same three records have run, their inserts
\* alternating.
C14_Witness ==
    /\ SavesDone /\ SameRecords /\ Len(saves.w[1].daily) = 3
    /\ \E k \in 1..(Len(saves.log) - 2) :
          saves.log[k] # saves.log[k + 1] /\ saves.log[k + 1] # saves.log[k + 2]

-----------------------------------------------------------------------------
(* Properties of the reducer (checked under SpecNorm)                      *)

\* The dates of the string entries of a timeDefines array.
DatesOf(a) ==
    IF a.k # "list" THEN {}
    ELSE {fmt_date(a.v[i]) : i \in {j \in 1..Len(a.v) : a.v[j].k = "str"}}

\* The series at index i (from 0) of the payload, where there is one.
HasSeries(p, i) ==
    p.top = "list" /\ p.root = "obj" /\ p.tsk = "list" /\ Len(p.ts) >= i + 1
        /\ p.ts[i + 1].k = "obj"

\* Every date of the timeDefines of the three series.
AllSeriesDates(p) ==
    UNION {IF HasSeries(p, i) THEN DatesOf(p.ts[i + 1].timeDefines) ELSE {} : i \in 0..2}

\* The positions of array a (of series i) paired with an entry of array b.
Paired(a, b) ==
    IF a.k = "list" /\ b.k = "list" THEN 1..Min2(Len(a.v), Len(b.v)) ELSE {}

\* The dates that enter the merge: a weather date paired with a weather, a
\* date of series 2, an hourly date paired with a temperature int() accepts.
MergedDates(p) ==
    (IF HasSeries(p, 0) /\ p.ts[1].areas = "ok"
     THEN {fmt_date(p.ts[1].timeDefines.v[i]) :
              i \in Paired(p.ts[1].timeDefines, p.ts[1].weathers)}
     ELSE {})
    \cup (IF HasSeries(p, 2) THEN DatesOf(p.ts[3].timeDefines) ELSE {})
    \cup (IF HasSeries(p, 1) /\ p.ts[2].areas = "ok"
          THEN {fmt_date(p.ts[2].timeDefines.v[i]) :
                  i \in {j \in Paired(p.ts[2].timeDefines, p.ts[2].temps) :
                            IntOK(p.ts[2].temps.v[j])}}
          ELSE {})

OutDates == [i \in 1..Len(out.recs) |-> out.recs[i].date]

\* At most 6 records, strictly ascending by date.
SixSorted ==
    /\ Len(out.recs) <= 6
    /\ \A i \in 1..(Len(out.recs) - 1) : StrLess(out.recs[i].date, out.recs[i + 1].date)

\* C6 as claimed: at most 6 records, ascending, no date twice, and of more
\* than 6 distinct dates of the three series the 6 earliest are kept.
C6_SixEarliestOfAllDates ==
    (out.done /\ ~out.err) =>
        /\ SixSorted
        /\ Cardinality(AllSeriesDates(raw)) > 6 =>
              OutDates = Prefix(SortedKeys(AllSeriesDates(raw)), 6)

\* C6 as amended: at most 6 records, ascending, no date twice; the dates
\* kept are the 6 earliest of the dates that enter the merge.
C6_SixEarliestOfMergedDates ==
    (out.done /\ ~out.err) =>
        /\ SixSorted
        /\ OutDates = Prefix(SortedKeys(MergedDates(raw)), 6)

C6_Witness ==
    /\ out.done /\ ~out.err /\ Len(out.recs) = 6
    /\ Cardinality(MergedDates(raw)) > 6

\* The payload has a timeSeries list with no element at index 2.
NoSeries2(p) == p.top = "list" /\ p.root = "obj" /\ p.tsk = "list" /\ Len(p.ts) <= 2

\* The hourly temperatures int() accepts whose timeDefines entry is on date d.
HourlyVals(p, d) ==
    IF HasSeries(p, 1) /\ p.ts[2].areas = "ok"
    THEN {IntOf(p.ts[2].temps.v[i]) :
            i \in {j \in Paired(p.ts[2].timeDefines, p.ts[2].temps) :
                      /\ IntOK(p.ts[2].temps.v[j])
                      /\ p.ts[2].timeDefines.v[j].k = "str"
                      /\ fmt_date(p.ts[2].timeDefines.v[j]) = d}}
    ELSE {}

SetMin(V) == CHOOSE m \in V : \A v \in V : m <= v
SetMax(V) == CHOOSE m \in V : \A v \in V : m >= v

\* C7: without timeSeries[2], every record whose date has a parseable hourly
\* temperature has as min and max the least and the greatest of them.
C7_HourlyFallback ==
    (out.done /\ ~out.err /\ NoSeries2(raw)) =>
        \A i \in 1..Len(out.recs) :
            HourlyVals(raw, out.recs[i].date) # {} =>
                /\ out.recs[i].min = CInt(SetMin(HourlyVals(raw, out.recs[i].date)))
                /\ out.recs[i].max = CInt(SetMax(HourlyVals(raw, out.recs[i].date)))

C7_Witness ==
    /\ out.done /\ ~out.err /\ NoSeries2(raw)
    /\ \E i \in 1..Len(out.recs) :
          /\ Cardinality(HourlyVals(raw, out.recs[i].date)) >= 2
          /\ out.recs[i].min.k = "int" /\ out.recs[i].max.k = "int"
          /\ out.recs[i].min.n < out.recs[i].max.n

\* The payload with {} where timeSeries[i] is: every lookup in series i
\* fails at its first key.
WithoutSeries(p, i) ==
    IF HasSeries(p, i)
    THEN [p EXCEPT !.ts[i + 1] =
            Series(JMissing, "missing", JMissing, JMissing, JMissing, JMissing)]
    ELSE p

\* The array a holds a value int() rejects (a false one is not looked at
\* when skipFalse).
HasNonNumeric(a, skipFalse) ==
    /\ a.k = "list"
    /\ \E j \in 1..Len(a.v) : ~IntOK(a.v[j]) /\ (skipFalse => Truthy(a.v[j]))

\* A lookup of series i fails: no element at the index, a key missing, or a
\* value that is no number.
LookupFails(p, i) ==
    /\ p.top = "list" /\ p.root = "obj" /\ p.tsk = "list"
    /\ \/ ~HasSeries(p, i)
       \/ p.ts[i + 1].timeDefines.k = "missing"
       \/ p.ts[i + 1].areas # "ok"
       \/ i = 0 /\ p.ts[1].weathers.k = "missing"
       \/ i = 1 /\ (p.ts[2].temps.k = "missing" \/ HasNonNumeric(p.ts[2].temps, FALSE))
       \/ i = 2 /\ (\/ p.ts[3].tempsMin.k = "missing"
                     \/ p.ts[3].tempsMax.k = "missing"
                     \/ HasNonNumeric(p.ts[3].tempsMin, TRUE)
                     \/ HasNonNumeric(p.ts[3].tempsMax, TRUE))

\* C16: when a lookup of one series fails, the records returned are those
\* returned for the payload without that series.
C16_SeriesIndependent ==
    (out.done /\ ~out.err) =>
        \A i \in 0..2 :
            LookupFails(raw, i) =>
                out.recs = pick_daily_weather_and_temp(WithoutSeries(raw, i)).recs

\* C8: the reducer returns a list for every payload, the empty list for an
\* empty or non-array one, and never raises.
C8_NeverRaises ==
    out.done => (~out.err /\ (raw.top # "list" => out.recs = <<>>))

====
